---- MODULE Spec2Model ----
(***************************************************************************)
(* HTTP client wrappers of the stargazers tutorial repository.  Every      *)
(* source file is a program of its own; prog says which one is running.    *)
(*   advanced   src/Chapter_4/stargazers-advanced.py   GitHubAPIClient     *)
(*   advanced2  src/Chapter_4/stargazers-advanced2.py  GitHubAPIBase       *)
(*   output     src/Chapter_4/output.py                GitHubAPI           *)
(*   simple     the one-request membership checks of Chapter_2, Chapter_3, *)
(*              Chapter_4/stargazers.py and Chapter_4/stargazers-class.py  *)
(*   wrappers   the create, update, star and lock wrappers of every file:  *)
(*              the request each of them puts on the wire                  *)
(*   history    get_star_history of stargazers-advanced.py                 *)
(*   history2   get_star_history of stargazers-advanced2.py                *)
(*   descriptors  list_stargazers and list_starred_repositories of         *)
(*              stargazers-advanced2.py: the request they describe         *)
(*   concurrent   two calls of GitHubAPIClient._make_request in flight on  *)
(*              one client                                                 *)
(*   concurrent2  two calls of GitHubAPIBase._request in flight on one     *)
(*              client                                                     *)
(* The server is the environment: every network call draws its response    *)
(* (or a connection failure) from a small set.                             *)
(***************************************************************************)
EXTENDS Integers, Sequences, FiniteSets, TLC

VARIABLES prog, cfg, adv, adv2, out, pag, callerParams, mem, wire, hist, desc, conc

vars == <<prog, cfg, adv, adv2, out, pag, callerParams, mem, wire, hist, desc, conc>>

----------------------------------------------------------------------------
(* Bounds of the model *)

\* max_retries: int = 3
DefaultMaxRetries == 3
\* largest max_retries a client is constructed with
MaxRetries == 3
\* largest retry_delay (seconds, integer) a client is constructed with
MaxRetryDelay == 2
\* network calls after which the server stops answering one logical call
MaxCalls == MaxRetries + 1
\* nested calls the interpreter allows before it raises RecursionError
RecursionLimit == 4
\* largest per_page a caller of paginate asks for
MaxPerPage == 2
\* longest page the server returns besides the full default page
MaxPageLen == 3
\* page requests after which the server stops answering one sweep
MaxPages == 3
\* largest max_retries of the client two callers share
MaxConcRetries == 1

----------------------------------------------------------------------------
(* Responses *)

Programs ==
    {"advanced", "advanced2", "output", "paginate", "simple", "wrappers", "history",
     "history2", "descriptors", "concurrent", "concurrent2"}

SuccessStatuses == {200, 204}
FatalStatuses == {403, 404}
ServerErrorStatuses == {500}
Statuses == SuccessStatuses \cup FatalStatuses \cup ServerErrorStatuses \cup {429}

\* response.content: "" is an empty body, "garbage" does not decode, the
\* others are JSON objects ("obj_msg" is the one that has a "message" key)
SuccessBodies == {"obj_a", "obj_b"}
ErrorBodies == {"obj_msg", "obj_a", "garbage"}

Decodable(content) == content \notin {"", "garbage"}
HasMessage(content) == content = "obj_msg"
\* error_data["message"] of a decoded error body
ServerMessage == "server message"
\* str(e) of the exception
ExceptionText == "exception text"

\* a mapping (dict): a function from its keys
EmptyDict == <<>>
Get(d, k, default) == IF k \in DOMAIN d THEN d[k] ELSE default
\* d.update(e)
Update(d, e) == [k \in DOMAIN d \cup DOMAIN e |-> IF k \in DOMAIN e THEN e[k] ELSE d[k]]

\* an optional mapping argument (params, data, headers): None, or a mapping
NoData == [isNone |-> TRUE, d |-> EmptyDict]
Data(d) == [isNone |-> FALSE, d |-> d]

NoResponse == [conn |-> TRUE, status |-> 0, headers |-> EmptyDict, content |-> ""]
Response(s, h, c) == [conn |-> FALSE, status |-> s, headers |-> h, content |-> c]

BodiesOf(s) ==
    IF s = 204 THEN {""}
    ELSE IF s \in SuccessStatuses THEN SuccessBodies
    ELSE IF s = 429 THEN {"obj_msg"}
    ELSE IF s \in ServerErrorStatuses THEN {"obj_msg", "garbage"}
    ELSE ErrorBodies

\* values of Retry-After (seconds) and X-RateLimit-Reset (epoch seconds)
RetryAfterValues == {7}
ResetValues == {9}
\* time.time() when a 429 is handled
Clock == {4, 12}

HeadersOf(s, name, values) ==
    IF s = 429 THEN {EmptyDict} \cup {(name :> v) : v \in values} ELSE {EmptyDict}

\* a server error that carries the hint header as well
HintedServerErrors(name, values) ==
    {Response(s, (name :> v), "obj_msg") : s \in ServerErrorStatuses, v \in values}

Responses(name, values) ==
    {NoResponse} \cup
    UNION {{Response(s, h, c) : h \in HeadersOf(s, name, values), c \in BodiesOf(s)} :
           s \in Statuses}
    \cup HintedServerErrors(name, values)

\* Python values
PyNone == [isNone |-> TRUE, json |-> ""]
Json(content) == [isNone |-> FALSE, json |-> content]
PyBool(b) == [isNone |-> FALSE, json |-> IF b THEN "True" ELSE "False"]
NoError == [type |-> "", hasResponse |-> FALSE, status |-> 0, message |-> ""]
Error(t, hr, s, m) == [type |-> t, hasResponse |-> hr, status |-> s, message |-> m]

Max(a, b) == IF a >= b THEN a ELSE b
\* mutant: the backoff grows by one step, not by doubling
Pow2Linear(n) == n + 1
Pow2(n) == 2 ^ n

\* what the wire saw of a response: its status, 0 for a connection failure
Seen(resp) == IF resp.conn THEN 0 ELSE resp.status

\* response.raise_for_status() raises HTTPError for 400..599
RaisesForStatus(resp) == resp.status >= 400 /\ resp.status < 600

----------------------------------------------------------------------------
(* The configuration of a client: what __init__ stores *)

\* base_url.rstrip('/')
BaseUrl == "https://api.github.com"

\* headers = {"Accept": "application/vnd.github.v3.star+json"}
StarAccept == "application/vnd.github.v3.star+json"

\* self.headers of output.py
OutDefaultHeaders ==
    ("Authorization" :> "token t") @@ ("Accept" :> "application/vnd.github+json")
    @@ ("X-GitHub-Api-Version" :> "2022-11-28")

\* self.session.headers of stargazers-advanced.py
AdvSessionHeaders ==
    ("Content-Type" :> "application/json") @@ ("Accept" :> "application/json")
    @@ ("Authorization" :> "Bearer t")

\* self.session.headers of stargazers-advanced2.py
Adv2SessionHeaders ==
    ("Authorization" :> "token t") @@ ("Content-Type" :> "application/json")
    @@ ("Accept" :> "application/vnd.github.v3+json")
    @@ ("User-Agent" :> "GitHubAPI-Python-Client")

\* the default headers of the client a program runs
ClientHeaders(p) ==
    IF p \in {"advanced", "history", "concurrent"} THEN AdvSessionHeaders
    ELSE IF p \in {"advanced2", "history2", "concurrent2"} THEN Adv2SessionHeaders
    ELSE OutDefaultHeaders

----------------------------------------------------------------------------
(* src/Chapter_4/stargazers-advanced.py *)

\* the arguments a session call is made with; a keyword that is not passed
\* is absent from the mapping
AdvNoCall == [method |-> "", url |-> <<>>, kwargs |-> EmptyDict]

\* endpoint.lstrip('/')
Lstrip(endpoint) == IF Len(endpoint) > 0 /\ Head(endpoint) = "/" THEN Tail(endpoint) ELSE endpoint

\* what the caller of an operation passes down to _make_request: the
\* method, the endpoint (a sequence of path segments, "/" for a leading
\* slash), params and data
AdvArguments(op) ==
    IF op = "get"
    THEN [method |-> "GET", endpoint |-> <<"test", "endpoint">>,
          params |-> Data(("param" :> "value")), data |-> NoData, headers |-> NoData]
    ELSE IF op = "post"
    THEN [method |-> "POST", endpoint |-> <<"/", "test", "endpoint">>,
          params |-> Data(("param" :> "value")), data |-> Data(("name" :> "test")),
          headers |-> NoData]
    ELSE [method |-> "GET", endpoint |-> <<"user", "starred", "owner", "repo">>,
          params |-> NoData, data |-> NoData, headers |-> NoData]

\* url, request_headers and the branch of the method: the session call of
\* one attempt
AdvSessionCall(base_url, a) ==
    LET request_headers ==
            IF ~a.headers.isNone /\ DOMAIN a.headers.d # {}
            THEN Update(EmptyDict, a.headers.d) ELSE EmptyDict
        common == ("params" :> a.params) @@ ("headers" :> Data(request_headers))
    IN  [method |-> a.method,
         url |-> <<base_url, "/">> \o Lstrip(a.endpoint),
         kwargs |-> IF a.method \in {"POST", "PUT", "PATCH"}
                    THEN common @@ ("json" :> a.data) ELSE common]

AdvIdle ==
    [pc |-> "idle", op |-> "get", retries |-> 0, delay |-> 0, calls |-> 0,
     log |-> <<>>, sleeps |-> <<>>, last |-> NoResponse, ret |-> PyNone,
     err |-> NoError, request |-> AdvNoCall]

\* the exception an attempt raises inside the try block
AdvException(resp) ==
    IF resp.conn THEN Error("ConnectionError", FALSE, 0, ExceptionText)
    ELSE Error("HTTPError", TRUE, resp.status, ExceptionText)

\* GitHubAPIClient.get: response.json() if response.content else None
AdvGetValue(resp) == IF resp.content # "" THEN Json(resp.content) ELSE PyNone

\* mutant: the 404 of the request is not turned into False
AdvCheckStarredNoMap(o) ==
    IF o.pc = "returned" THEN [o EXCEPT !.ret = PyBool(TRUE)] ELSE o

\* GitHubStarsClient.check_starred around the outcome of self.api.get
AdvCheckStarred(o) ==
    IF o.pc = "returned" THEN [o EXCEPT !.ret = PyBool(TRUE)]
    ELSE IF o.err.type = "HTTPError" /\ o.err.status = 404
         THEN [o EXCEPT !.pc = "returned", !.ret = PyBool(FALSE), !.err = NoError]
         ELSE o

AdvFinish(o) == IF o.op = "check_starred" THEN AdvCheckStarred(o) ELSE o

\* mutant: the loop stops one attempt early
AdvLoopGuardStrict(retries, max_retries) == retries < max_retries

\* mutant: the loop allows one attempt more
AdvLoopGuardLoose(retries, max_retries) == retries <= max_retries + 1

\* while retries <= self.max_retries
AdvLoopGuard(retries, max_retries) == retries <= max_retries

\* mutant: the handler never re-raises and leaves the raise to the loop exit
AdvGiveUpLate(retries, max_retries) == retries > max_retries

\* if retries >= self.max_retries: raise
AdvGiveUp(retries, max_retries) == retries >= max_retries

\* mutant: the Retry-After header is not read
AdvRetryAfterIgnored(resp, delay) == delay

\* retry_after = int(response.headers.get('Retry-After', delay))
AdvRetryAfter(resp, delay) == Get(resp.headers, "Retry-After", delay)

AdvStart(op) ==
    /\ prog = "advanced"
    /\ adv.pc \in {"idle", "returned", "raised"}
    /\ adv' = [AdvIdle EXCEPT !.pc = "loop", !.op = op, !.retries = 0,
                              !.delay = cfg.retry_delay]
    /\ UNCHANGED <<prog, cfg, adv2, out, pag, callerParams, mem, wire, hist, desc, conc>>

\* one iteration of the while loop on the locals a of one call, under the
\* client's configuration c: the network call and its handling
AdvStep(a, resp, c) ==
    LET called == [a EXCEPT !.calls = @ + 1, !.log = Append(@, Seen(resp)),
                            !.last = resp,
                            !.request = AdvSessionCall(c.base_url,
                                                       AdvArguments(a.op))]
    IN  IF ~resp.conn /\ resp.status = 429
        THEN [called EXCEPT
                !.sleeps = Append(@, AdvRetryAfter(resp, a.delay)),
                !.retries = @ + 1,
                !.delay = @ * 2]
        ELSE IF resp.conn \/ RaisesForStatus(resp)
        THEN IF AdvGiveUp(a.retries, c.max_retries)
             THEN AdvFinish([called EXCEPT !.pc = "raised",
                                           !.err = AdvException(resp)])
             ELSE [called EXCEPT !.retries = @ + 1,
                                 !.sleeps = Append(@, a.delay),
                                 !.delay = @ * 2]
        ELSE AdvFinish([called EXCEPT !.pc = "returned",
                                      !.ret = AdvGetValue(resp)])

\* the raise after the loop
AdvAfterLoop(a) ==
    AdvFinish([a EXCEPT !.pc = "raised",
                 !.err = Error("RequestException", FALSE, 0,
                               "Max retries exceeded")])

AdvAttempt(resp) ==
    /\ prog = "advanced"
    /\ adv.pc = "loop"
    /\ AdvLoopGuard(adv.retries, cfg.max_retries)
    /\ adv' = AdvStep(adv, resp, cfg)
    /\ UNCHANGED <<prog, cfg, adv2, out, pag, callerParams, mem, wire, hist, desc, conc>>

AdvExhausted ==
    /\ prog = "advanced"
    /\ adv.pc = "loop"
    /\ ~AdvLoopGuard(adv.retries, cfg.max_retries)
    /\ adv' = AdvAfterLoop(adv)
    /\ UNCHANGED <<prog, cfg, adv2, out, pag, callerParams, mem, wire, hist, desc, conc>>

----------------------------------------------------------------------------
(* src/Chapter_4/stargazers-advanced2.py *)

Adv2Idle ==
    [pc |-> "idle", op |-> "get", retries |-> 0, calls |-> 0,
     log |-> <<>>, sleeps |-> <<>>, last |-> NoResponse, last_error |-> NoError,
     ret |-> PyNone, err |-> NoError]

\* mutant: the error body is never decoded
Adv2MessageNoDecode(resp) == ExceptionText

\* error_message: error_data["message"] when the body decodes and has it
Adv2Message(resp) ==
    IF Decodable(resp.content) /\ HasMessage(resp.content)
    THEN ServerMessage ELSE ExceptionText

\* mutant: the exception kept as last_error forgets its response
Adv2ExceptionNoResponse(resp) == Error("ConnectionError", FALSE, 0, ExceptionText)

\* the RequestException an attempt raises inside the try block
Adv2Exception(resp) ==
    IF resp.conn THEN Error("ConnectionError", FALSE, 0, ExceptionText)
    ELSE Error("HTTPError", TRUE, resp.status, Adv2Message(resp))

\* 400 <= e.response.status_code < 500 and e.response.status_code != 429
Adv2Fatal(resp) ==
    ~resp.conn /\ 400 <= resp.status /\ resp.status < 500 /\ resp.status # 429

\* the 429 branch that waits for the reset time and continues
Adv2RateLimitWait(resp) ==
    ~resp.conn /\ resp.status = 429 /\ Get(resp.headers, "X-RateLimit-Reset", 0) > 0

Adv2GetValue(resp) == IF resp.content = "" THEN PyNone ELSE Json(resp.content)

\* GitHubStargazersAPI.check_if_starred around the outcome of self.api.get
Adv2CheckIfStarred(o) ==
    IF o.pc = "returned" THEN [o EXCEPT !.ret = PyBool(TRUE)]
    ELSE IF o.err.type = "GitHubAPIError" /\ o.err.status = 404
         THEN [o EXCEPT !.pc = "returned", !.ret = PyBool(FALSE), !.err = NoError]
         ELSE o

Adv2Finish(o) == IF o.op = "check_if_starred" THEN Adv2CheckIfStarred(o) ELSE o

\* while retries <= self.max_retries
Adv2LoopGuard(retries, max_retries) == retries <= max_retries

Adv2Start(op) ==
    /\ prog = "advanced2"
    /\ adv2.pc \in {"idle", "returned", "raised"}
    /\ adv2' = [Adv2Idle EXCEPT !.pc = "loop", !.op = op]
    /\ UNCHANGED <<prog, cfg, adv, out, pag, callerParams, mem, wire, hist, desc, conc>>

\* one iteration of the while loop on the locals a of one call, under the
\* client's configuration c: the network call and its handling
Adv2Step(a, resp, now, c) ==
    LET called == [a EXCEPT !.calls = @ + 1, !.log = Append(@, Seen(resp)),
                            !.last = resp]
        failed == [called EXCEPT !.last_error = Adv2Exception(resp),
                                 !.retries = @ + 1]
    IN  IF Adv2RateLimitWait(resp)
        THEN [called EXCEPT !.sleeps =
                Append(@, Max(resp.headers["X-RateLimit-Reset"] - now, 0) + 1)]
        ELSE IF resp.conn \/ RaisesForStatus(resp)
        THEN IF Adv2Fatal(resp)
             THEN Adv2Finish([failed EXCEPT !.pc = "raised",
                    !.err = Error("GitHubAPIError", TRUE, resp.status,
                                  Adv2Message(resp))])
             ELSE IF failed.retries <= c.max_retries
             THEN [failed EXCEPT !.sleeps =
                     Append(@, c.retry_delay * Pow2(failed.retries - 1))]
             ELSE failed
        ELSE Adv2Finish([called EXCEPT !.pc = "returned",
                                       !.ret = Adv2GetValue(resp)])

\* after the loop: all retries failed
Adv2AfterLoop(a) ==
    Adv2Finish([a EXCEPT !.pc = "raised",
      !.err = IF a.last_error.type = "HTTPError" /\ a.last_error.hasResponse
              THEN Error("GitHubAPIError", TRUE, a.last_error.status,
                         a.last_error.message)
              ELSE Error("GitHubAPIError", FALSE, 0, ExceptionText)])

Adv2Attempt(resp, now) ==
    /\ prog = "advanced2"
    /\ adv2.pc = "loop"
    /\ Adv2LoopGuard(adv2.retries, cfg.max_retries)
    /\ adv2.calls < MaxCalls
    /\ adv2' = Adv2Step(adv2, resp, now, cfg)
    /\ UNCHANGED <<prog, cfg, adv, out, pag, callerParams, mem, wire, hist, desc, conc>>

Adv2Exhausted ==
    /\ prog = "advanced2"
    /\ adv2.pc = "loop"
    /\ ~Adv2LoopGuard(adv2.retries, cfg.max_retries)
    /\ adv2' = Adv2AfterLoop(adv2)
    /\ UNCHANGED <<prog, cfg, adv, out, pag, callerParams, mem, wire, hist, desc, conc>>

----------------------------------------------------------------------------
(* src/Chapter_4/output.py: GitHubAPI._request *)

\* params.get('per_page', 100)
DefaultPerPage == 100

\* the items of the page a list endpoint returns: item j of page p
PageItems(p, len) == [j \in 1..len |-> <<p, j>>]
PageLengths == 0..MaxPageLen \cup {37, DefaultPerPage}

OutNoResponse ==
    [conn |-> TRUE, status |-> 0, headers |-> EmptyDict, content |-> "", items |-> <<>>]
OutResponse(s, h, c, it) ==
    [conn |-> FALSE, status |-> s, headers |-> h, content |-> c, items |-> it]

\* what the server may answer to a request for page p
OutResponses(p, resets) ==
    {OutNoResponse}
    \cup {OutResponse(200, EmptyDict, "list", PageItems(p, len)) : len \in PageLengths}
    \cup {OutResponse(200, EmptyDict, "obj_a", <<>>), OutResponse(204, EmptyDict, "", <<>>)}
    \cup {OutResponse(429, h, "obj_msg", <<>>) :
             h \in {EmptyDict} \cup {("X-RateLimit-Reset" :> v) : v \in resets}}
    \cup UNION {{OutResponse(st, EmptyDict, c, <<>>) : c \in BodiesOf(st)} :
                   st \in FatalStatuses \cup ServerErrorStatuses}

OutNone == [isNone |-> TRUE, json |-> "", items |-> <<>>]
OutJson(resp) == [isNone |-> FALSE, json |-> resp.content, items |-> resp.items]

\* the except branch: the Exception raised for a failed request
OutException(resp) ==
    IF ~resp.conn /\ Decodable(resp.content)
    THEN Error("Exception", TRUE, resp.status,
               IF HasMessage(resp.content) THEN ServerMessage ELSE ExceptionText)
    ELSE Error("Exception", FALSE, 0, ExceptionText)

\* mutant: a 204 is decoded like every other 2xx
OutHandleDecodes204(resp, now) ==
    IF ~resp.conn /\ resp.status = 429
    THEN [kind |-> "retry", ret |-> OutNone, err |-> NoError,
          wait |-> Max(Get(resp.headers, "X-RateLimit-Reset", 0) - now, 0) + 1]
    ELSE IF resp.conn \/ RaisesForStatus(resp)
    THEN [kind |-> "raise", ret |-> OutNone, err |-> OutException(resp), wait |-> 0]
    ELSE [kind |-> "return", ret |-> OutJson(resp), err |-> NoError, wait |-> 0]

\* one pass through the body of _request after the network call
OutHandle(resp, now) ==
    IF ~resp.conn /\ resp.status = 429
    THEN [kind |-> "retry", ret |-> OutNone, err |-> NoError,
          wait |-> Max(Get(resp.headers, "X-RateLimit-Reset", 0) - now, 0) + 1]
    ELSE IF resp.conn \/ RaisesForStatus(resp)
    THEN [kind |-> "raise", ret |-> OutNone, err |-> OutException(resp), wait |-> 0]
    ELSE IF resp.status = 204
    THEN [kind |-> "return", ret |-> OutNone, err |-> NoError, wait |-> 0]
    ELSE [kind |-> "return", ret |-> OutJson(resp), err |-> NoError, wait |-> 0]

\* return self._request(...): one more frame, until the interpreter refuses
StackOverflow(depth) == depth + 1 >= RecursionLimit
RecursionError == Error("RecursionError", FALSE, 0, "maximum recursion depth exceeded")

\* the headers argument of a call: None and {} alike fail the test
\* `if headers:` and are both the empty mapping here
CallerHeaders ==
    {EmptyDict,
     ("Accept" :> StarAccept),
     ("X-Trace" :> "t1"),
     ("Accept" :> StarAccept) @@ ("X-Trace" :> "t1"),
     ("Authorization" :> "token other") @@ ("X-GitHub-Api-Version" :> "2026-01-01")}

\* mutant: the client defaults win over the caller's headers
OutRequestHeadersDefaultsWin(self_headers, headers) ==
    [self_headers |-> self_headers, request_headers |-> Update(headers, self_headers)]

\* mutant: request_headers is self.headers itself, not a copy of it
OutRequestHeadersNoCopy(self_headers, headers) ==
    [self_headers |-> Update(self_headers, headers),
     request_headers |-> Update(self_headers, headers)]

\* request_headers = self.headers.copy(); if headers:
\* request_headers.update(headers).  Gives the headers sent and what
\* self.headers is afterwards.
OutRequestHeaders(self_headers, headers) ==
    [self_headers |-> self_headers,
     request_headers |-> IF headers # EmptyDict THEN Update(self_headers, headers)
                         ELSE self_headers]

OutIdle ==
    [pc |-> "idle", headers |-> EmptyDict, request_headers |-> EmptyDict,
     depth |-> 0, calls |-> 0, last |-> OutNoResponse, wait |-> 0,
     ret |-> OutNone, err |-> NoError]

\* _request(method, endpoint, headers=headers)
OutStart(headers) ==
    /\ prog = "output"
    /\ out.pc \in {"idle", "returned", "raised"}
    /\ out' = [OutIdle EXCEPT !.pc = "running", !.headers = headers]
    /\ UNCHANGED <<prog, cfg, adv, adv2, pag, callerParams, mem, wire, hist, desc, conc>>

\* one invocation of _request: the network call and its handling
OutAttempt(resp, now) ==
    /\ prog = "output"
    /\ out.pc = "running"
    /\ LET h == OutHandle(resp, now)
           m == OutRequestHeaders(cfg.headers, out.headers)
           called == [out EXCEPT !.calls = @ + 1, !.last = resp, !.wait = h.wait,
                                 !.request_headers = m.request_headers]
       IN  /\ out' =
                IF h.kind = "retry"
                THEN IF StackOverflow(out.depth)
                     THEN [called EXCEPT !.pc = "raised", !.err = RecursionError]
                     ELSE [called EXCEPT !.depth = @ + 1]
                ELSE IF h.kind = "raise"
                THEN [called EXCEPT !.pc = "raised", !.err = h.err]
                ELSE [called EXCEPT !.pc = "returned", !.ret = h.ret]
           /\ cfg' = [cfg EXCEPT !.headers = m.self_headers]
    /\ UNCHANGED <<prog, adv, adv2, pag, callerParams, mem, wire, hist, desc, conc>>

----------------------------------------------------------------------------
(* src/Chapter_4/output.py: GitHubAPI.paginate *)

\* d[k] = v
Put(d, k, v) == [x \in DOMAIN d \cup {k} |-> IF x = k THEN v ELSE d[x]]

\* the mappings a caller builds before it calls paginate
CallerDicts ==
    {EmptyDict, ("since" :> 7)}
    \cup {("per_page" :> n) : n \in 1..MaxPerPage}
    \cup {("per_page" :> n) @@ ("since" :> 7) : n \in 1..MaxPerPage}

PagIdle ==
    [pc |-> "idle", given |-> FALSE, start |-> EmptyDict, aliased |-> FALSE,
     params |-> EmptyDict, page |-> 0, depth |-> 0, all_items |-> <<>>,
     calls |-> 0, log |-> <<>>, ret |-> <<>>, err |-> NoError]

\* mutant: the sweep resumes from the page the mapping already carries
PagFirstPageResume(params) == Get(params, "page", 1)

\* page = 1
PagFirstPage(params) == 1

\* mutant: a page of exactly per_page items ends the sweep
PagShortPageInclusive(len, per_page) == len <= per_page

\* if len(response) < params['per_page']: break
PagShortPage(len, per_page) == len < per_page

\* if not response or not isinstance(response, list) or len(response) == 0
PagNoItems(value) == value.isNone \/ value.json # "list" \/ Len(value.items) = 0

\* paginate(endpoint, params): given says whether params is the caller's
\* mapping (callerParams) or None
PagStart(given) ==
    /\ prog = "paginate"
    /\ pag.pc \in {"idle", "returned", "raised"}
    /\ LET arg == IF given THEN callerParams ELSE EmptyDict
           aliased == given /\ DOMAIN callerParams # {}
           p1 == Put(arg, "per_page", Get(arg, "per_page", DefaultPerPage))
       IN  /\ pag' = [PagIdle EXCEPT !.pc = "loop", !.given = given, !.start = arg,
                                     !.aliased = aliased, !.params = p1,
                                     !.page = PagFirstPage(p1)]
           /\ callerParams' = IF aliased THEN p1 ELSE callerParams
    /\ UNCHANGED <<prog, cfg, adv, adv2, out, mem, wire, hist, desc, conc>>

\* one network call of the sweep: at the top of the loop it is the request
\* for the next page, inside _request (after a 429) it is the repeated one
PagFetch(resp, now) ==
    /\ prog = "paginate"
    /\ pag.pc \in {"loop", "request"}
    /\ pag.calls < MaxPages
    /\ LET p1 == IF pag.pc = "loop" THEN Put(pag.params, "page", pag.page)
                 ELSE pag.params
           h == OutHandle(resp, now)
           entry == [page |-> p1["page"], per_page |-> p1["per_page"],
                     kind |-> IF h.kind # "return" THEN h.kind
                              ELSE IF ~h.ret.isNone /\ h.ret.json = "list" THEN "list"
                              ELSE "other",
                     len |-> Len(resp.items)]
           called == [pag EXCEPT !.params = p1, !.calls = @ + 1,
                                 !.log = Append(@, entry)]
       IN  /\ resp \in OutResponses(p1["page"], {})
           /\ pag' =
                IF h.kind = "retry"
                THEN IF StackOverflow(pag.depth)
                     THEN [called EXCEPT !.pc = "raised", !.err = RecursionError]
                     ELSE [called EXCEPT !.pc = "request", !.depth = @ + 1]
                ELSE IF h.kind = "raise"
                THEN [called EXCEPT !.pc = "raised", !.err = h.err]
                ELSE IF PagNoItems(h.ret)
                THEN [called EXCEPT !.pc = "returned", !.ret = pag.all_items]
                ELSE IF PagShortPage(Len(h.ret.items), p1["per_page"])
                THEN [called EXCEPT !.pc = "returned",
                                    !.all_items = @ \o h.ret.items,
                                    !.ret = pag.all_items \o h.ret.items]
                ELSE [called EXCEPT !.pc = "loop", !.depth = 0,
                                    !.all_items = @ \o h.ret.items,
                                    !.page = @ + 1]
           /\ callerParams' = IF pag.aliased THEN p1 ELSE callerParams
           /\ cfg' = [cfg EXCEPT
                        !.headers = OutRequestHeaders(cfg.headers, EmptyDict).self_headers]
    /\ UNCHANGED <<prog, adv, adv2, out, mem, wire, hist, desc, conc>>

\* the caller builds another mapping between two sweeps
CallerBuildsParams(d) ==
    /\ prog = "paginate"
    /\ pag.pc \in {"idle", "returned", "raised"}
    /\ callerParams' = d
    /\ pag' = PagIdle
    /\ UNCHANGED <<prog, cfg, adv, adv2, out, mem, wire, hist, desc, conc>>

----------------------------------------------------------------------------
(* The membership checks that make one request *)

\* Retry(total=5, backoff_factor=1, status_forcelist=[502, 503, 504])
Ch3RetryTotal == 5
Ch3StatusForcelist == {502, 503, 504}

MemIdle ==
    [pc |-> "idle", wrapper |-> "", total |-> 0, calls |-> 0, last |-> NoResponse,
     ret |-> PyNone, err |-> NoError]

Wrappers == {"Chapter_2", "Chapter_3", "Chapter_4", "class"}

MemStart(w) ==
    /\ prog = "simple"
    /\ mem.pc \in {"idle", "returned", "raised"}
    /\ mem' = [MemIdle EXCEPT !.pc = "running", !.wrapper = w,
                              !.total = IF w = "Chapter_3" THEN Ch3RetryTotal ELSE 0]
    /\ UNCHANGED <<prog, cfg, adv, adv2, out, pag, callerParams, wire, hist, desc, conc>>

MemCalled(resp) == [mem EXCEPT !.calls = @ + 1, !.last = resp]
MemReturn(resp, v) == [MemCalled(resp) EXCEPT !.pc = "returned", !.ret = v]
MemRaise(resp, e) == [MemCalled(resp) EXCEPT !.pc = "raised", !.err = e]
ConnectionError == Error("ConnectionError", FALSE, 0, ExceptionText)
HTTPError(resp) == Error("HTTPError", TRUE, resp.status, ExceptionText)

\* src/Chapter_2/stargazers.py GitHubAPI.check_if_starred
Ch2CheckIfStarred(resp) ==
    /\ prog = "simple" /\ mem.pc = "running" /\ mem.wrapper = "Chapter_2"
    /\ mem' = IF resp.conn THEN MemRaise(resp, ConnectionError)
              ELSE MemReturn(resp, PyBool(resp.status = 204))
    /\ UNCHANGED <<prog, cfg, adv, adv2, out, pag, callerParams, wire, hist, desc, conc>>

\* src/Chapter_3/stargazers.py GitHubStarsAPI.check_if_starred: one request
\* of the session, whose adapter retries the forcelist statuses and the
\* connection failures while its total lasts
Ch3CheckIfStarred(resp) ==
    /\ prog = "simple" /\ mem.pc = "running" /\ mem.wrapper = "Chapter_3"
    /\ mem' = IF resp.conn \/ resp.status \in Ch3StatusForcelist
              THEN IF mem.total > 0
                   THEN [MemCalled(resp) EXCEPT !.total = @ - 1]
                   ELSE MemRaise(resp, IF resp.conn THEN ConnectionError
                                       ELSE Error("RetryError", FALSE, 0, ExceptionText))
              ELSE MemReturn(resp, PyBool(resp.status = 204))
    /\ UNCHANGED <<prog, cfg, adv, adv2, out, pag, callerParams, wire, hist, desc, conc>>

\* src/Chapter_4/stargazers.py check_if_starred
Ch4CheckIfStarred(resp) ==
    /\ prog = "simple" /\ mem.pc = "running" /\ mem.wrapper = "Chapter_4"
    /\ mem' = IF resp.conn THEN MemRaise(resp, ConnectionError)
              ELSE IF resp.status = 204 THEN MemReturn(resp, PyBool(TRUE))
              ELSE IF resp.status = 404 THEN MemReturn(resp, PyBool(FALSE))
              ELSE IF RaisesForStatus(resp) THEN MemRaise(resp, HTTPError(resp))
              ELSE MemReturn(resp, PyNone)
    /\ UNCHANGED <<prog, cfg, adv, adv2, out, pag, callerParams, wire, hist, desc, conc>>

\* src/Chapter_4/stargazers-class.py StargazersClient.is_repository_starred
ClassIsRepositoryStarred(resp) ==
    /\ prog = "simple" /\ mem.pc = "running" /\ mem.wrapper = "class"
    /\ mem' = IF resp.conn THEN MemRaise(resp, ConnectionError)
              ELSE IF RaisesForStatus(resp)
              THEN IF resp.status = 404 THEN MemReturn(resp, PyBool(FALSE))
                   ELSE MemRaise(resp, HTTPError(resp))
              ELSE MemReturn(resp, PyBool(TRUE))
    /\ UNCHANGED <<prog, cfg, adv, adv2, out, pag, callerParams, wire, hist, desc, conc>>

----------------------------------------------------------------------------
(* The request bodies of the create, update, star and lock wrappers *)

\* Python None, which json.dumps writes as null
Null == "null"

\* a keyword parameter the caller leaves out takes its default, None
Arg(args, k) == Get(args, k, Null)

\* d without the keys of S
Without(d, S) == [k \in DOMAIN d \ S |-> d[k]]

\* requests, json=...: None puts no body on the wire, every other value is
\* serialised, an empty mapping as the two characters {}
RequestsJson(json) == [present |-> ~json.isNone, body |-> json.d]

\* requests.put(url, headers=...), requests.delete(url, headers=...)
RequestsNoJson == RequestsJson(NoData)

\* output.py _request: json=data if data else None
OutJsonArgument(data) == IF ~data.isNone /\ DOMAIN data.d # {} THEN data ELSE NoData

\* create_issue of Chapter_2, Chapter_3 and section-4-step-2
IssueData(args) ==
    Data(("title" :> "v") @@ [k \in {"body", "assignees", "labels"} |-> Arg(args, k)])

\* mutant: only the arguments the caller gave go into the body
Ch2CreateIssueSupplied(args) ==
    [method |-> "POST", json |-> RequestsJson(Data(("title" :> "v") @@ args))]

Ch2CreateIssue(args) == [method |-> "POST", json |-> RequestsJson(IssueData(args))]
Ch3CreateIssue(args) == [method |-> "POST", json |-> RequestsJson(IssueData(args))]
Step2CreateIssue(args) == [method |-> "POST", json |-> RequestsJson(IssueData(args))]

\* data = {'title': title, **kwargs}; if body: data['body'] = body
OutCreateIssue(args) ==
    LET kwargs == Without(args, {"body"})
        data == ("title" :> "v") @@ kwargs
    IN  [method |-> "POST",
         json |-> RequestsJson(OutJsonArgument(Data(
                      IF Arg(args, "body") # Null THEN Put(data, "body", args["body"])
                      ELSE data)))]

\* data = {'title': title, 'head': head, 'base': base, **kwargs}
OutCreatePullRequest(args) ==
    LET kwargs == Without(args, {"body"})
        data == [k \in {"title", "head", "base"} |-> "v"] @@ kwargs
    IN  [method |-> "POST",
         json |-> RequestsJson(OutJsonArgument(Data(
                      IF Arg(args, "body") # Null THEN Put(data, "body", args["body"])
                      ELSE data)))]

\* data = {'name': name, **kwargs}; org only chooses the endpoint
OutCreateRepository(args) ==
    [method |-> "POST",
     json |-> RequestsJson(OutJsonArgument(Data(("name" :> "v") @@ Without(args, {"org"}))))]

\* section-4-step-2 update_issue: all five keys, whatever the caller gave
Step2UpdateIssue(args) ==
    [method |-> "PATCH",
     json |-> RequestsJson(Data([k \in {"title", "body", "state", "assignees", "labels"}
                                    |-> Arg(args, k)]))]

\* output.py update_issue, update_repository, update_pull_request: data=kwargs
OutUpdateIssue(args) == [method |-> "PATCH", json |-> RequestsJson(OutJsonArgument(Data(args)))]
OutUpdateRepository(args) ==
    [method |-> "PATCH", json |-> RequestsJson(OutJsonArgument(Data(args)))]
OutUpdatePullRequest(args) ==
    [method |-> "PATCH", json |-> RequestsJson(OutJsonArgument(Data(args)))]

\* star, unstar, lock and unlock
Ch2StarRepository == [method |-> "PUT", json |-> RequestsNoJson]
Ch2UnstarRepository == [method |-> "DELETE", json |-> RequestsNoJson]
Ch3StarRepository == [method |-> "PUT", json |-> RequestsNoJson]
Ch3UnstarRepository == [method |-> "DELETE", json |-> RequestsNoJson]
Ch4StarRepository == [method |-> "PUT", json |-> RequestsNoJson]
Ch4UnstarRepository == [method |-> "DELETE", json |-> RequestsNoJson]
Step2LockIssue == [method |-> "PUT", json |-> RequestsNoJson]
Step2UnlockIssue == [method |-> "DELETE", json |-> RequestsNoJson]
\* self.api.put(..., data={}): session.put(url, params=params, json=data, ...)
AdvStarRepository == [method |-> "PUT", json |-> RequestsJson(Data(EmptyDict))]
\* session.delete(url, params=params, headers=request_headers)
AdvUnstarRepository == [method |-> "DELETE", json |-> RequestsNoJson]
\* self.api.put(endpoint), self.api.delete(endpoint): json=data, data None
Adv2StarRepository == [method |-> "PUT", json |-> RequestsJson(NoData)]
Adv2UnstarRepository == [method |-> "DELETE", json |-> RequestsJson(NoData)]

CreateWrappers ==
    {"Chapter_2.create_issue", "Chapter_3.create_issue", "step2.create_issue",
     "output.create_issue", "output.create_pull_request", "output.create_repository"}
UpdateWrappers ==
    {"step2.update_issue", "output.update_issue", "output.update_repository",
     "output.update_pull_request"}
MutateWrappers ==
    {"Chapter_2.star_repository", "Chapter_2.unstar_repository",
     "Chapter_3.star_repository", "Chapter_3.unstar_repository",
     "Chapter_4.star_repository", "Chapter_4.unstar_repository",
     "advanced.star_repository", "advanced.unstar_repository",
     "advanced2.star_repository", "advanced2.unstar_repository",
     "step2.lock_issue", "step2.unlock_issue"}

\* the body keys a create wrapper takes as required parameters
RequiredKeys(w) ==
    IF w = "output.create_pull_request" THEN {"title", "head", "base"}
    ELSE IF w = "output.create_repository" THEN {"name"}
    ELSE {"title"}

\* the optional parameters a caller may pass by keyword
OptionalKeys(w) ==
    IF w \in {"Chapter_2.create_issue", "Chapter_3.create_issue", "step2.create_issue",
              "output.create_issue"}
    THEN {"body", "assignees", "labels"}
    ELSE IF w = "output.create_pull_request" THEN {"body", "draft"}
    ELSE IF w = "output.create_repository" THEN {"org", "private"}
    ELSE IF w = "step2.update_issue" THEN {"title", "body", "state", "assignees", "labels"}
    ELSE IF w = "output.update_issue" THEN {"title", "body", "state"}
    ELSE IF w = "output.update_repository" THEN {"description", "private"}
    ELSE IF w = "output.update_pull_request" THEN {"title", "state"}
    ELSE {}

\* the keyword arguments of one call: some of the optional parameters, each
\* with a value or with an explicit None
ArgDicts(w) == UNION {[S -> {"v", Null}] : S \in SUBSET OptionalKeys(w)}

RequestOf(w, args) ==
    CASE w = "Chapter_2.create_issue" -> Ch2CreateIssue(args)
      [] w = "Chapter_3.create_issue" -> Ch3CreateIssue(args)
      [] w = "step2.create_issue" -> Step2CreateIssue(args)
      [] w = "output.create_issue" -> OutCreateIssue(args)
      [] w = "output.create_pull_request" -> OutCreatePullRequest(args)
      [] w = "output.create_repository" -> OutCreateRepository(args)
      [] w = "step2.update_issue" -> Step2UpdateIssue(args)
      [] w = "output.update_issue" -> OutUpdateIssue(args)
      [] w = "output.update_repository" -> OutUpdateRepository(args)
      [] w = "output.update_pull_request" -> OutUpdatePullRequest(args)
      [] w = "Chapter_2.star_repository" -> Ch2StarRepository
      [] w = "Chapter_2.unstar_repository" -> Ch2UnstarRepository
      [] w = "Chapter_3.star_repository" -> Ch3StarRepository
      [] w = "Chapter_3.unstar_repository" -> Ch3UnstarRepository
      [] w = "Chapter_4.star_repository" -> Ch4StarRepository
      [] w = "Chapter_4.unstar_repository" -> Ch4UnstarRepository
      [] w = "advanced.star_repository" -> AdvStarRepository
      [] w = "advanced.unstar_repository" -> AdvUnstarRepository
      [] w = "advanced2.star_repository" -> Adv2StarRepository
      [] w = "advanced2.unstar_repository" -> Adv2UnstarRepository
      [] w = "step2.lock_issue" -> Step2LockIssue
      [] w = "step2.unlock_issue" -> Step2UnlockIssue

WireIdle ==
    [wrapper |-> "", args |-> EmptyDict, method |-> "", json |-> RequestsNoJson,
     url |-> <<>>, headers |-> EmptyDict, calls |-> 0, last |-> NoResponse,
     pc |-> "idle", ret |-> PyNone, err |-> NoError]

\* a caller invokes wrapper w with the keyword arguments args; the wrapper
\* builds its request and sends it
WrapperCall(w, args) ==
    /\ prog = "wrappers"
    /\ LET r == RequestOf(w, args)
       IN  wire' = [WireIdle EXCEPT !.wrapper = w, !.args = args, !.method = r.method,
                                    !.json = r.json]
    /\ UNCHANGED <<prog, cfg, adv, adv2, out, pag, callerParams, mem, hist, desc, conc>>

\* self.headers of Chapter_2/stargazers.py
Ch2Headers ==
    ("Authorization" :> "Bearer t") @@ ("Accept" :> "application/vnd.github+json")

\* response.json() of a body that does not decode
JSONDecodeError == Error("JSONDecodeError", FALSE, 0, ExceptionText)

\* Chapter_2/stargazers.py create_issue(owner, repo, title, **args) as a
\* whole: the POST, raise_for_status() and response.json()
Ch2CreateIssueCall(args, resp) ==
    /\ prog = "wrappers"
    /\ LET r == Ch2CreateIssue(args)
           sent == [WireIdle EXCEPT !.wrapper = "Chapter_2.create_issue", !.args = args,
                                    !.method = r.method, !.json = r.json,
                                    !.url = <<cfg.base_url, "/repos/", "owner", "/",
                                              "repo", "/issues">>,
                                    !.headers = Ch2Headers,
                                    !.calls = 1, !.last = resp]
       IN  wire' =
             IF resp.conn THEN [sent EXCEPT !.pc = "raised", !.err = ConnectionError]
             ELSE IF RaisesForStatus(resp)
             THEN [sent EXCEPT !.pc = "raised", !.err = HTTPError(resp)]
             ELSE IF ~Decodable(resp.content)
             THEN [sent EXCEPT !.pc = "raised", !.err = JSONDecodeError]
             ELSE [sent EXCEPT !.pc = "returned", !.ret = Json(resp.content)]
    /\ UNCHANGED <<prog, cfg, adv, adv2, out, pag, callerParams, mem, hist, desc, conc>>

----------------------------------------------------------------------------
(* get_star_history of stargazers-advanced.py and stargazers-advanced2.py *)

StarHeaders == ("Accept" :> StarAccept)

\* params={"per_page": 100, "page": page}
Hist2PerPage == 100

\* what self.api.get gives back for page p: a list of items, None for an
\* empty body, a decoded mapping, or one of the exceptions it raises
ApiList(p, len) == [kind |-> "list", items |-> PageItems(p, len), err |-> NoError]
ApiNone == [kind |-> "none", items |-> <<>>, err |-> NoError]
ApiDict == [kind |-> "dict", items |-> <<>>, err |-> NoError]
ApiRaise(e) == [kind |-> "raise", items |-> <<>>, err |-> e]

\* GitHubAPIClient.get ends with the exception of its last attempt
AdvGetErrors ==
    {AdvException(Response(s, EmptyDict, "obj_msg")) :
        s \in FatalStatuses \cup ServerErrorStatuses \cup {429}}
    \cup {AdvException(NoResponse)}

\* GitHubAPIBase.get ends with a GitHubAPIError
Adv2GetErrors ==
    {Error("GitHubAPIError", TRUE, s, ServerMessage) :
        s \in FatalStatuses \cup ServerErrorStatuses \cup {429}}
    \cup {Error("GitHubAPIError", FALSE, 0, ExceptionText)}

\* what the server's pages make of get for page p
AdvGetOutcomes(p) ==
    {ApiList(p, len) : len \in 0..MaxPageLen} \cup {ApiNone}
    \cup {ApiRaise(e) : e \in AdvGetErrors}
Adv2GetOutcomes(p) ==
    {ApiList(p, len) : len \in {0, 1, Hist2PerPage}} \cup {ApiNone, ApiDict}
    \cup {ApiRaise(e) : e \in Adv2GetErrors}

HistIdle ==
    [pc |-> "idle", per_page |-> 0, max_pages |-> 0, page |-> 0,
     all_stars |-> <<>>, log |-> <<>>, ret |-> <<>>, err |-> NoError]

\* the request for the page params holds, as self.api.get receives it
HistRequest(h, o) ==
    [page |-> h.page, per_page |-> h.per_page, headers |-> StarHeaders,
     kind |-> o.kind, len |-> Len(o.items)]

\* star_history.copy() and all_stars.extend(star_history) of a value that
\* is None
NoneTypeError == Error("AttributeError", FALSE, 0, "NoneType")

\* mutant: a page longer than per_page also asks for the next one
HistFullPageOrMore(len, per_page) == len >= per_page

\* while len(star_history) == per_page
HistFullPage(len, per_page) == len = per_page

\* stargazers-advanced.py get_star_history(owner, repo, per_page)
HistStart(per_page) ==
    /\ prog = "history"
    /\ hist.pc \in {"idle", "returned", "raised"}
    /\ hist' = [HistIdle EXCEPT !.pc = "first", !.per_page = per_page, !.page = 1]
    /\ UNCHANGED <<prog, cfg, adv, adv2, out, pag, callerParams, mem, wire, desc, conc>>

\* the initial request, all_stars = star_history.copy() and the loop test
HistFirst(o) ==
    /\ prog = "history"
    /\ hist.pc = "first"
    /\ LET called == [hist EXCEPT !.log = Append(@, HistRequest(hist, o))]
       IN  hist' =
             IF o.kind = "raise" THEN [called EXCEPT !.pc = "raised", !.err = o.err]
             ELSE IF o.kind = "none"
             THEN [called EXCEPT !.pc = "raised", !.err = NoneTypeError]
             ELSE IF HistFullPage(Len(o.items), hist.per_page)
             THEN [called EXCEPT !.pc = "loop", !.all_stars = o.items]
             ELSE [called EXCEPT !.pc = "returned", !.all_stars = o.items,
                                 !.ret = o.items]
    /\ UNCHANGED <<prog, cfg, adv, adv2, out, pag, callerParams, mem, wire, desc, conc>>

\* one pass of the while loop: params["page"] += 1, the request, extend,
\* the except clause and the loop test
HistNext(o) ==
    /\ prog = "history"
    /\ hist.pc = "loop"
    /\ Len(hist.log) < MaxPages
    /\ o \in AdvGetOutcomes(hist.page + 1)
    /\ LET paged == [hist EXCEPT !.page = @ + 1]
           called == [paged EXCEPT !.log = Append(@, HistRequest(paged, o))]
       IN  hist' =
             IF o.kind = "raise"
             THEN IF o.err.type = "HTTPError" /\ o.err.status = 404
                  THEN [called EXCEPT !.pc = "returned", !.ret = hist.all_stars]
                  ELSE [called EXCEPT !.pc = "raised", !.err = o.err]
             ELSE IF o.kind = "none"
             THEN [called EXCEPT !.pc = "raised", !.err = NoneTypeError]
             ELSE IF HistFullPage(Len(o.items), hist.per_page)
             THEN [called EXCEPT !.all_stars = @ \o o.items]
             ELSE [called EXCEPT !.pc = "returned", !.all_stars = @ \o o.items,
                                 !.ret = hist.all_stars \o o.items]
    /\ UNCHANGED <<prog, cfg, adv, adv2, out, pag, callerParams, mem, wire, desc, conc>>

\* stargazers-advanced2.py get_star_history(owner, repo, max_pages)
Hist2Start(max_pages) ==
    /\ prog = "history2"
    /\ hist.pc \in {"idle", "returned", "raised"}
    /\ hist' = [HistIdle EXCEPT !.pc = "loop", !.per_page = Hist2PerPage,
                                !.max_pages = max_pages, !.page = 1]
    /\ UNCHANGED <<prog, cfg, adv, adv2, out, pag, callerParams, mem, wire, desc, conc>>

\* one pass of the while True loop.  The keys a decoded mapping adds to
\* all_stargazers are strings, which the closing loop drops; the items of a
\* list carry user and starred_at and are all kept.
Hist2Next(o) ==
    /\ prog = "history2"
    /\ hist.pc = "loop"
    /\ o \in Adv2GetOutcomes(hist.page)
    /\ LET called == [hist EXCEPT !.log = Append(@, HistRequest(hist, o))]
       IN  hist' =
             IF o.kind = "raise"
             THEN [called EXCEPT !.pc = "returned", !.err = o.err, !.ret = hist.all_stars]
             ELSE IF o.kind = "none" \/ (o.kind = "list" /\ Len(o.items) = 0)
                     \/ hist.page > hist.max_pages
             THEN [called EXCEPT !.pc = "returned", !.ret = hist.all_stars]
             ELSE IF o.kind = "list" /\ Len(o.items) < Hist2PerPage
             THEN [called EXCEPT !.pc = "returned", !.page = @ + 1,
                                 !.all_stars = @ \o o.items,
                                 !.ret = hist.all_stars \o o.items]
             ELSE [called EXCEPT !.page = @ + 1, !.all_stars = @ \o o.items]
    /\ UNCHANGED <<prog, cfg, adv, adv2, out, pag, callerParams, mem, wire, desc, conc>>

----------------------------------------------------------------------------
(* stargazers-advanced2.py: the requests of the list wrappers *)

\* the arguments of list_stargazers; Null is an optional one left at None,
\* the numbers are written as the query string carries them
StargazersArgs ==
    [owner : {"o1", "o2"}, repo : {"r1", "r2"}, per_page : {Null, "30"},
     page : {Null, "2"}, sort : {Null, "created", "updated"}]

\* the arguments of list_starred_repositories
StarredArgs ==
    [username : {Null, "u1", "u2"}, sort : {Null, "created", "updated"},
     direction : {Null, "asc"}, per_page : {Null, "30"}, page : {Null, "2"}]

\* params = {}; if x is not None: params['x'] = x, for the keys of S
ParamsOf(a, S) == [k \in {x \in S : a[x] # Null} |-> a[k]]

\* headers = {"Accept": ...} if sort == "created" else None
SortHeaders(sort) == IF sort = "created" THEN Data(StarHeaders) ELSE NoData

\* list_stargazers: what it hands to self.api.get
ListStargazers(a) ==
    [path |-> <<"repos", a.owner, a.repo, "stargazers">>,
     params |-> ParamsOf(a, {"per_page", "page"}),
     headers |-> SortHeaders(a.sort)]

\* list_starred_repositories: what it hands to self.api.get
ListStarredRepositories(a) ==
    [path |-> IF a.username # Null THEN <<"users", a.username, "starred">>
              ELSE <<"user", "starred">>,
     params |-> ParamsOf(a, {"sort", "direction", "per_page", "page"}),
     headers |-> SortHeaders(a.sort)]

DescIdle == [fn |-> "", args |-> EmptyDict, request |-> EmptyDict]

ListStargazersCall(a) ==
    /\ prog = "descriptors"
    /\ desc' = [fn |-> "list_stargazers", args |-> a, request |-> ListStargazers(a)]
    /\ UNCHANGED <<prog, cfg, adv, adv2, out, pag, callerParams, mem, wire, hist, conc>>

ListStarredRepositoriesCall(a) ==
    /\ prog = "descriptors"
    /\ desc' = [fn |-> "list_starred_repositories", args |-> a,
                request |-> ListStarredRepositories(a)]
    /\ UNCHANGED <<prog, cfg, adv, adv2, out, pag, callerParams, mem, wire, hist, conc>>

----------------------------------------------------------------------------
(* Two calls in flight on one client: stargazers-advanced.py and           *)
(* stargazers-advanced2.py.  The callers share the client (cfg); retries,  *)
(* delay and last_error are local variables of each call.                  *)

Callers == {1, 2}
ConcPrograms == {"concurrent", "concurrent2"}

\* what the server may answer to either caller
ConcResponses(name, values) ==
    {Response(200, EmptyDict, "obj_a"), Response(429, EmptyDict, "obj_msg"),
     Response(500, EmptyDict, "obj_msg")}
    \cup {Response(429, (name :> v), "obj_msg") : v \in values}

\* the locals of a call that has just entered the function
ConcBegin(p, c) ==
    IF p = "concurrent"
    THEN [AdvIdle EXCEPT !.pc = "loop", !.retries = 0, !.delay = c.retry_delay]
    ELSE [Adv2Idle EXCEPT !.pc = "loop"]

ConcIdle(p) ==
    [locals |-> IF p = "concurrent2" THEN Adv2Idle ELSE AdvIdle, resps |-> <<>>]

ConcLoopGuard(p, a, c) ==
    IF p = "concurrent" THEN AdvLoopGuard(a.retries, c.max_retries)
    ELSE Adv2LoopGuard(a.retries, c.max_retries)

ConcStep(p, a, resp, now, c) ==
    IF p = "concurrent" THEN AdvStep(a, resp, c) ELSE Adv2Step(a, resp, now, c)

ConcAfterLoop(p, a) ==
    IF p = "concurrent" THEN AdvAfterLoop(a) ELSE Adv2AfterLoop(a)

\* mutant: the attempt counter is kept on the shared client
ConcLocalsOnClient(cs, i, new) ==
    [j \in DOMAIN cs |->
        [cs[j] EXCEPT !.locals = IF j = i THEN new
                                 ELSE [@ EXCEPT !.retries = new.retries]]]

\* retries, delay and last_error are local variables: a step of call i
\* writes the locals of call i only
ConcLocals(cs, i, new) == [cs EXCEPT ![i].locals = new]

ConcStart(i) ==
    /\ prog \in ConcPrograms
    /\ conc[i].locals.pc = "idle"
    /\ conc' = ConcLocals(conc, i, ConcBegin(prog, cfg))
    /\ UNCHANGED <<prog, cfg, adv, adv2, out, pag, callerParams, mem, wire, hist, desc>>

\* one iteration of the while loop of call i; resps keeps what the server
\* answered to this call
ConcAttempt(i, resp, now) ==
    /\ prog \in ConcPrograms
    /\ conc[i].locals.pc = "loop"
    /\ ConcLoopGuard(prog, conc[i].locals, cfg)
    /\ conc[i].locals.calls < MaxConcRetries + 2
    /\ conc' = [ConcLocals(conc, i, ConcStep(prog, conc[i].locals, resp, now, cfg))
                  EXCEPT ![i].resps = Append(@, <<resp, now>>)]
    /\ UNCHANGED <<prog, cfg, adv, adv2, out, pag, callerParams, mem, wire, hist, desc>>

\* the code after the while loop of call i
ConcExhausted(i) ==
    /\ prog \in ConcPrograms
    /\ conc[i].locals.pc = "loop"
    /\ ~ConcLoopGuard(prog, conc[i].locals, cfg)
    /\ conc' = ConcLocals(conc, i, ConcAfterLoop(prog, conc[i].locals))
    /\ UNCHANGED <<prog, cfg, adv, adv2, out, pag, callerParams, mem, wire, hist, desc>>

----------------------------------------------------------------------------
(* The specification *)

Init ==
    /\ prog \in Programs
    /\ cfg \in [max_retries : 0..MaxRetries, retry_delay : 1..MaxRetryDelay,
                 base_url : {BaseUrl}, headers : {ClientHeaders(prog)}]
    /\ prog \notin {"advanced", "advanced2"} \cup ConcPrograms =>
          (cfg.max_retries = DefaultMaxRetries /\ cfg.retry_delay = 1)
    /\ prog \in ConcPrograms =>
          (cfg.max_retries <= MaxConcRetries /\ cfg.retry_delay = 1)
    /\ adv = AdvIdle
    /\ adv2 = Adv2Idle
    /\ out = OutIdle
    /\ pag = PagIdle
    /\ callerParams \in CallerDicts
    /\ prog # "paginate" => callerParams = EmptyDict
    /\ mem = MemIdle
    /\ wire = WireIdle
    /\ hist = HistIdle
    /\ desc = DescIdle
    /\ conc = [i \in Callers |-> ConcIdle(prog)]

Next ==
    \/ \E op \in {"get", "post", "check_starred"} : AdvStart(op)
    \/ \E resp \in Responses("Retry-After", RetryAfterValues) : AdvAttempt(resp)
    \/ AdvExhausted
    \/ \E op \in {"get", "check_if_starred"} : Adv2Start(op)
    \/ \E resp \in Responses("X-RateLimit-Reset", ResetValues), now \in Clock :
          Adv2Attempt(resp, now)
    \/ Adv2Exhausted
    \/ \E headers \in CallerHeaders : OutStart(headers)
    \/ \E resp \in OutResponses(1, ResetValues), now \in Clock : OutAttempt(resp, now)
    \/ \E given \in BOOLEAN : PagStart(given)
    \/ \E p \in 1..MaxPages : \E resp \in OutResponses(p, {}) : PagFetch(resp, 4)
    \/ \E d \in CallerDicts : CallerBuildsParams(d)
    \/ \E w \in Wrappers : MemStart(w)
    \/ \E resp \in Responses("Retry-After", {}) \cup {Response(503, EmptyDict, "garbage")} :
          \/ Ch2CheckIfStarred(resp)
          \/ Ch3CheckIfStarred(resp)
          \/ Ch4CheckIfStarred(resp)
          \/ ClassIsRepositoryStarred(resp)
    \/ \E w \in (CreateWrappers \cup UpdateWrappers \cup MutateWrappers)
                     \ {"Chapter_2.create_issue"} :
          \E args \in ArgDicts(w) : WrapperCall(w, args)
    \/ \E args \in ArgDicts("Chapter_2.create_issue"), resp \in Responses("Retry-After", {}) :
          Ch2CreateIssueCall(args, resp)
    \/ \E per_page \in 1..MaxPerPage : HistStart(per_page)
    \/ \E o \in AdvGetOutcomes(1) : HistFirst(o)
    \/ \E p \in 2..MaxPages : \E o \in AdvGetOutcomes(p) : HistNext(o)
    \/ \E max_pages \in 0..MaxPages : Hist2Start(max_pages)
    \/ \E p \in 1..MaxPages + 1 : \E o \in Adv2GetOutcomes(p) : Hist2Next(o)
    \/ \E a \in StargazersArgs : ListStargazersCall(a)
    \/ \E a \in StarredArgs : ListStarredRepositoriesCall(a)
    \/ \E i \in Callers : ConcStart(i)
    \/ \E i \in Callers :
          \E resp \in ConcResponses("Retry-After", RetryAfterValues)
                        \cup ConcResponses("X-RateLimit-Reset", ResetValues) :
             ConcAttempt(i, resp, 4)
    \/ \E i \in Callers : ConcExhausted(i)

Spec == Init /\ [][Next]_vars

----------------------------------------------------------------------------
(* Properties of the retrying clients *)

\* statuses as the wire saw them (0 is a connection failure)
IsSuccess(s) == 200 <= s /\ s < 300
IsRetryable(s) == s = 0 \/ s = 429 \/ (500 <= s /\ s < 600)
IsFatal(s) == 400 <= s /\ s < 500 /\ s # 429
AllRetryable(log) == \A i \in 1..Len(log) : IsRetryable(log[i])
AllConnFailures(log) == \A i \in 1..Len(log) : log[i] = 0
Front(log) == SubSeq(log, 1, Len(log) - 1)

\* the decoded body of a 2xx response (None when there is no body)
DecodedBody(resp) == IF resp.content = "" THEN PyNone ELSE Json(resp.content)

\* a log of k <= max_retries retryable failures followed by a 2xx response
FailuresThenSuccess(log) ==
    /\ Len(log) >= 1
    /\ Len(log) - 1 <= cfg.max_retries
    /\ IsSuccess(log[Len(log)])
    /\ AllRetryable(Front(log))

\* a call that gave up although every failure so far was retryable and the
\* budget of max_retries failures was not yet used up
GaveUpEarly(c) ==
    c.pc = "raised" /\ AllRetryable(c.log) /\ Len(c.log) <= cfg.max_retries

ReturnsSuccess(c) ==
    FailuresThenSuccess(c.log) =>
        /\ c.pc = "returned"
        /\ c.ret = DecodedBody(c.last)
        /\ c.calls = Len(c.log)

\* C1: in both retrying clients, k <= max_retries leading retryable failures
\* (429, 5xx, connection error) followed by a 2xx response make the call
\* return the decoded body of that response after exactly k+1 network calls;
\* the call never gives up while such a sequence is still possible.
C1_RetryThenSuccess ==
    /\ (prog = "advanced" /\ adv.op = "get") =>
          ReturnsSuccess(adv) /\ ~GaveUpEarly(adv)
    /\ (prog = "advanced2" /\ adv2.op = "get") =>
          ReturnsSuccess(adv2) /\ ~GaveUpEarly(adv2)

C1_Witness ==
    /\ prog = "advanced" /\ adv.op = "get" /\ adv.pc = "returned"
    /\ cfg.max_retries = 3
    /\ adv.log = <<0, 429, 500, 200>>

\* the first position of a fatal 4xx (other than 429) in a log, 0 when none
RECURSIVE FirstFatalFrom(_, _)
FirstFatalFrom(log, i) ==
    IF i > Len(log) THEN 0
    ELSE IF IsFatal(log[i]) THEN i ELSE FirstFatalFrom(log, i + 1)
FirstFatal(log) == FirstFatalFrom(log, 1)

\* C2: in GitHubAPIBase._request a 4xx other than 429 is fatal at any
\* position: no network call follows it and the call has raised
\* GitHubAPIError with that status and the server's message when the body
\* decodes and has one, else the exception text.
C2_FatalRaisesAtOnce ==
    (prog = "advanced2" /\ adv2.op = "get" /\ FirstFatal(adv2.log) > 0) =>
        /\ FirstFatal(adv2.log) = Len(adv2.log)
        /\ adv2.calls = Len(adv2.log)
        /\ adv2.pc = "raised"
        /\ adv2.err.type = "GitHubAPIError"
        /\ adv2.err.status = adv2.last.status
        /\ adv2.err.message =
             IF adv2.last.content = "obj_msg" THEN ServerMessage ELSE ExceptionText

C2_Witness ==
    /\ prog = "advanced2" /\ adv2.op = "get" /\ adv2.pc = "raised"
    /\ adv2.log = <<500, 429, 403>>
    /\ adv2.last.content = "obj_msg"
    /\ adv2.err.message = ServerMessage

\* C3: in GitHubAPIClient._make_request a 4xx other than 429 ends the call
\* on that response: the call has raised and no network call follows it.
C3_AdvFatalRaisesAtOnce ==
    (prog = "advanced" /\ FirstFatal(adv.log) > 0) =>
        /\ FirstFatal(adv.log) = Len(adv.log)
        /\ adv.pc # "loop"
        /\ Len(adv.sleeps) < Len(adv.log)

\* C4: one call of GitHubAPIBase._request makes at most max_retries + 1
\* network calls.
C4_Adv2CallsBounded ==
    prog = "advanced2" => adv2.calls <= cfg.max_retries + 1

\* C5: when every attempt of GitHubAPIClient.get fails with a connection
\* error, the call keeps retrying up to max_retries + 1 network calls and
\* then raises that ConnectionError.
C5_ConnectionErrorsExhaust ==
    (prog = "advanced" /\ adv.op = "get" /\ Len(adv.log) >= 1
         /\ AllConnFailures(adv.log)) =>
        IF Len(adv.log) <= cfg.max_retries
        THEN adv.pc = "loop"
        ELSE /\ adv.calls = cfg.max_retries + 1
             /\ adv.pc = "raised"
             /\ adv.err.type = "ConnectionError"

C5_Witness ==
    /\ prog = "advanced" /\ adv.op = "get" /\ adv.pc = "raised"
    /\ cfg.max_retries = 3
    /\ adv.log = <<0, 0, 0, 0>>
    /\ adv.calls = 4

\* C6: when GitHubAPIClient._make_request gives up, the error it raises is
\* the last observed error, whatever the kind of retryable failure: its
\* status is that of the last response.
C6_AdvRaisesLastError ==
    (prog = "advanced" /\ adv.op = "get" /\ adv.pc = "raised"
         /\ AllRetryable(adv.log)) =>
        /\ adv.err.hasResponse = ~adv.last.conn
        /\ adv.err.status = Seen(adv.last)

----------------------------------------------------------------------------
(* Properties of output.py *)

\* C7: GitHubAPI._request bounds its handling of 429 by itself: however
\* long the server keeps answering 429, the call ends by a return or by an
\* error of the request, never by running out of stack.
C7_OutBoundedAttempts ==
    (prog = "output" /\ out.pc = "raised") => out.err.type # "RecursionError"

PagAllLists(log) == \A j \in 1..Len(log) : log[j].kind = "list"

\* the per_page the sweep was asked for
PagPerPage == Get(pag.start, "per_page", DefaultPerPage)

\* pages 1..n of the server, concatenated
RECURSIVE ConcatPages(_, _)
ConcatPages(log, n) ==
    IF n = 0 THEN <<>> ELSE ConcatPages(log, n - 1) \o PageItems(n, log[n].len)

\* C8: against a server that answers every request with a JSON list,
\* paginate requests pages 1, 2, 3, ... with the same per_page (100 when the
\* caller gave none), goes on exactly while the pages are full, stops after
\* the first page shorter than per_page, has then made one network call per
\* page and returns the pages concatenated in order.
C8_PaginateSweep ==
    (prog = "paginate" /\ pag.pc # "idle" /\ PagAllLists(pag.log)) =>
        LET n == Len(pag.log) IN
        /\ \A j \in 1..n : pag.log[j].page = j /\ pag.log[j].per_page = PagPerPage
        /\ \A j \in 1..(n - 1) : pag.log[j].len >= PagPerPage
        /\ pag.calls = n
        /\ IF n >= 1 /\ pag.log[n].len < PagPerPage
           THEN pag.pc = "returned" /\ pag.ret = ConcatPages(pag.log, n)
           ELSE pag.pc = "loop"

C8_Witness ==
    /\ prog = "paginate" /\ pag.pc = "returned"
    /\ "per_page" \notin DOMAIN pag.start
    /\ Len(pag.log) = 3
    /\ pag.log[1].len = 100 /\ pag.log[2].len = 100 /\ pag.log[3].len = 37
    /\ pag.calls = 3
    /\ Len(pag.ret) = 237

\* the page number request j of a sweep has to carry: one more than the
\* number of pages received before it
PageOf(log, j) == 1 + Cardinality({i \in 1..(j - 1) : log[i].kind = "list"})

\* the list pages a sweep received, concatenated
RECURSIVE ConcatReceived(_, _)
ConcatReceived(log, n) ==
    IF n = 0 THEN <<>>
    ELSE ConcatReceived(log, n - 1) \o
         (IF log[n].kind = "list" THEN PageItems(PageOf(log, n), log[n].len) ELSE <<>>)

\* C9: every sweep starts at page 1 and walks the pages from there, whatever
\* mapping it was given (also one that still carries the page and per_page
\* of an earlier sweep), and what it returns is made of the pages the server
\* sent during this sweep alone.
C9_FreshSweep ==
    prog = "paginate" =>
        /\ \A j \in 1..Len(pag.log) : pag.log[j].page = PageOf(pag.log, j)
        /\ pag.pc = "returned" => pag.ret = ConcatReceived(pag.log, Len(pag.log))

C9_Witness ==
    /\ prog = "paginate" /\ pag.pc = "returned" /\ pag.given
    /\ "page" \in DOMAIN pag.start /\ pag.start["page"] >= 2
    /\ Len(pag.log) >= 2
    /\ pag.log[1].page = 1
    /\ Len(pag.ret) >= 2

----------------------------------------------------------------------------
(* Properties of the membership checks *)

\* the call is over and the response that ended it had status s
EndedOn(c, s) ==
    c.pc \in {"returned", "raised"} /\ c.calls >= 1 /\ ~c.last.conn /\ c.last.status = s

MembershipAnswer(c) ==
    /\ EndedOn(c, 404) => c.pc = "returned" /\ c.ret = PyBool(FALSE)
    /\ EndedOn(c, 204) => c.pc = "returned" /\ c.ret = PyBool(TRUE)

\* C10: every membership check returns False, without raising, when the
\* request ends on a 404 answer of the server, and True when it ends on a
\* 204 answer.
C10_MembershipAnswer ==
    /\ prog = "simple" => MembershipAnswer(mem)
    /\ (prog = "advanced" /\ adv.op = "check_starred") => MembershipAnswer(adv)
    /\ (prog = "advanced2" /\ adv2.op = "check_if_starred") => MembershipAnswer(adv2)

C10_Witness ==
    /\ prog = "advanced" /\ adv.op = "check_starred"
    /\ cfg.max_retries = 3
    /\ adv.log = <<404, 404, 404, 404>>
    /\ adv.pc = "returned" /\ adv.ret = PyBool(FALSE)

\* C11: every membership check returns True when the request ends on a 200
\* answer of the server, as it does on a 204.
C11_MembershipTrueOn200 ==
    /\ prog = "simple" =>
          (EndedOn(mem, 200) => mem.pc = "returned" /\ mem.ret = PyBool(TRUE))
    /\ (prog = "advanced" /\ adv.op = "check_starred") =>
          (EndedOn(adv, 200) => adv.pc = "returned" /\ adv.ret = PyBool(TRUE))
    /\ (prog = "advanced2" /\ adv2.op = "check_if_starred") =>
          (EndedOn(adv2, 200) => adv2.pc = "returned" /\ adv2.ret = PyBool(TRUE))

\* the call ended on a failure status other than 404 and raised
FailurePropagates(c) ==
    (c.pc \in {"returned", "raised"} /\ c.calls >= 1 /\ ~c.last.conn
         /\ c.last.status >= 400 /\ c.last.status # 404) =>
        c.pc = "raised"

\* C12: a membership check turns only a 404 into False: a request that ends
\* on any other failure status (401, 403, 5xx) raises to the caller.
C12_OnlyNotFoundIsFalse ==
    /\ (prog = "simple" /\ mem.wrapper \in {"Chapter_2", "Chapter_3"}) =>
          FailurePropagates(mem)
    /\ (prog = "advanced" /\ adv.op = "check_starred") => FailurePropagates(adv)
    /\ (prog = "advanced2" /\ adv2.op = "check_if_starred") => FailurePropagates(adv2)

----------------------------------------------------------------------------
(* Properties of the request bodies *)

\* C13: a create wrapper called with only its required arguments sends a
\* body whose keys are exactly the required keys, none of them null.
C13_CreateSendsRequiredOnly ==
    (prog = "wrappers" /\ wire.wrapper \in CreateWrappers /\ DOMAIN wire.args = {}) =>
        /\ wire.json.present
        /\ DOMAIN wire.json.body = RequiredKeys(wire.wrapper)
        /\ \A k \in DOMAIN wire.json.body : wire.json.body[k] # Null

\* C14: an update wrapper sends a PATCH body that holds only the fields the
\* caller supplied, each with the caller's value; a field the caller left
\* out is not in the body.
C14_UpdateSendsSuppliedOnly ==
    (prog = "wrappers" /\ wire.wrapper \in UpdateWrappers) =>
        /\ wire.method = "PATCH"
        /\ DOMAIN wire.json.body \subseteq DOMAIN wire.args
        /\ \A k \in DOMAIN wire.json.body : wire.json.body[k] = wire.args[k]

\* C15: star, unstar, lock and unlock send their PUT or DELETE with no
\* request body at all.
C15_MutateSendsNoBody ==
    (prog = "wrappers" /\ wire.wrapper \in MutateWrappers) =>
        /\ wire.method \in {"PUT", "DELETE"}
        /\ ~wire.json.present

----------------------------------------------------------------------------
(* Properties of GitHubAPI._request and of the client configuration *)

\* C16: the headers _request sends are the client defaults overridden key
\* by key by the caller's headers: a key the caller supplies has the
\* caller's value, every other default key keeps its default value, and no
\* default key is dropped.
C16_HeadersMergedPerKey ==
    (prog = "output" /\ out.calls >= 1) =>
        /\ DOMAIN out.request_headers = DOMAIN OutDefaultHeaders \cup DOMAIN out.headers
        /\ \A k \in DOMAIN out.headers : out.request_headers[k] = out.headers[k]
        /\ \A k \in DOMAIN OutDefaultHeaders \ DOMAIN out.headers :
               out.request_headers[k] = OutDefaultHeaders[k]

\* a request went out whose caller overrode Accept and added a key
C16_Witness ==
    /\ prog = "output" /\ out.calls >= 1
    /\ {"Accept", "X-Trace"} \subseteq DOMAIN out.headers
    /\ out.request_headers["Accept"] = StarAccept
    /\ out.request_headers["Authorization"] = OutDefaultHeaders["Authorization"]

\* C17: an invocation of _request whose response is not a 429 makes one
\* network call (so a call that ends has made one call more than it met
\* 429s) and classifies the response: 204 returns None, any other 2xx
\* returns the decoded body, any 4xx or 5xx raises, with the status and
\* the server's message when the body decodes, and returns nothing.
C17_OutClassifies ==
    (prog = "output" /\ out.pc \in {"returned", "raised"} /\ ~out.last.conn
         /\ out.last.status # 429) =>
        /\ out.calls = out.depth + 1
        /\ out.last.status = 204 => (out.pc = "returned" /\ out.ret = OutNone)
        /\ (out.last.status \in 200..299 /\ out.last.status # 204) =>
              (out.pc = "returned" /\ ~out.ret.isNone /\ out.ret.json = out.last.content
                   /\ out.ret.items = out.last.items)
        /\ out.last.status \in 400..599 =>
              /\ out.pc = "raised"
              /\ out.err.type = "Exception"
              /\ Decodable(out.last.content) =>
                    (out.err.hasResponse /\ out.err.status = out.last.status)
              /\ HasMessage(out.last.content) => out.err.message = ServerMessage

\* a 404 with a message, answered to the only network call, has been raised
C17_Witness ==
    /\ prog = "output" /\ out.pc = "raised" /\ out.calls = 1
    /\ out.last.status = 404 /\ out.err.status = 404 /\ out.err.message = ServerMessage

\* C18: no step of any client (a request with per-call headers, a retry, a
\* 429 wait, a page of a sweep, a failed call) changes the client's
\* base_url, default headers, max_retries or retry_delay.
C18_ConfigImmutable == [][cfg' = cfg]_vars

\* a call with headers of its own has been sent and has ended, and the
\* client's defaults are those it was built with
C18_Witness ==
    /\ prog = "output" /\ out.pc \in {"returned", "raised"} /\ out.depth >= 1
    /\ out.headers # EmptyDict
    /\ out.request_headers # cfg.headers
    /\ cfg.headers = OutDefaultHeaders

----------------------------------------------------------------------------
(* Properties of get_star_history *)

\* the items of the first n requests of a sweep, in the order received
RECURSIVE HistReceived(_, _)
HistReceived(log, n) ==
    IF n = 0 THEN <<>>
    ELSE HistReceived(log, n - 1)
         \o (IF log[n].kind = "list" THEN PageItems(log[n].page, log[n].len) ELSE <<>>)

HistFull(e, per_page) == e.kind = "list" /\ e.len = per_page

C20_AtMostMaxPages ==
    prog = "history2" => Len(hist.log) <= hist.max_pages

\* C21: a GitHubAPIError raised while get_star_history of
\* stargazers-advanced2.py fetches a page reaches the caller: the method
\* raises it and never returns a history after a failed page.
C21_HistoryErrorPropagates ==
    (prog = "history2" /\ \E i \in 1..Len(hist.log) : hist.log[i].kind = "raise") =>
        (hist.pc = "raised" /\ hist.err.type = "GitHubAPIError")

----------------------------------------------------------------------------
(* Further properties of the retrying clients *)

\* C22: get and post of stargazers-advanced.py, called without headers,
\* make their session call to base_url + "/" + endpoint with the caller's
\* params (post: with json equal to the caller's data) and with
\* headers=None; a 200 answered to the first call is the only call and its
\* decoded body is returned.
C22_AdvSessionCall ==
    (prog = "advanced" /\ adv.op \in {"get", "post"} /\ adv.calls >= 1) =>
        /\ adv.request.url = <<BaseUrl, "/", "test", "endpoint">>
        /\ adv.request.kwargs["params"] = Data(("param" :> "value"))
        /\ adv.op = "post" =>
              ("json" \in DOMAIN adv.request.kwargs
                   /\ adv.request.kwargs["json"] = Data(("name" :> "test")))
        /\ adv.request.kwargs["headers"] = NoData
        /\ (adv.log[1] = 200 /\ adv.last.content # "") =>
              (adv.calls = 1 /\ adv.pc = "returned" /\ adv.ret = Json(adv.last.content))

\* C23: create_issue of Chapter_2/stargazers.py makes one POST to
\* {base_url}/repos/{owner}/{repo}/issues with the client's headers and a
\* JSON body whose keys are always title, body, assignees and labels, an
\* optional argument that was not supplied going out as None; it returns
\* the decoded body of the response.
C23_Ch2CreateIssue ==
    (prog = "wrappers" /\ wire.wrapper = "Chapter_2.create_issue") =>
        /\ wire.calls = 1 /\ wire.method = "POST"
        /\ wire.url = <<BaseUrl, "/repos/", "owner", "/", "repo", "/issues">>
        /\ wire.headers = Ch2Headers
        /\ wire.json.present
        /\ DOMAIN wire.json.body = {"title", "body", "assignees", "labels"}
        /\ \A k \in {"body", "assignees", "labels"} :
               wire.json.body[k] = IF k \in DOMAIN wire.args THEN wire.args[k] ELSE Null
        /\ (~wire.last.conn /\ wire.last.status < 400 /\ Decodable(wire.last.content)) =>
               (wire.pc = "returned" /\ wire.ret = Json(wire.last.content))

\* a call that gave a body but no assignees or labels, answered 200
C23_Witness ==
    /\ prog = "wrappers" /\ wire.wrapper = "Chapter_2.create_issue"
    /\ DOMAIN wire.args = {"body"} /\ wire.args["body"] = "v"
    /\ wire.json.body["assignees"] = Null /\ wire.json.body["labels"] = Null
    /\ wire.pc = "returned" /\ wire.last.status = 200

----------------------------------------------------------------------------
(* Properties of the list wrappers *)

\* C24: list_stargazers and list_starred_repositories map their arguments
\* to the request (path, params, headers) without loss: no call with other
\* arguments describes the same request as the call just made.
C24_DescriptorInjective ==
    /\ (prog = "descriptors" /\ desc.fn = "list_stargazers") =>
          \A b \in StargazersArgs : ListStargazers(b) = desc.request => b = desc.args
    /\ (prog = "descriptors" /\ desc.fn = "list_starred_repositories") =>
          \A b \in StarredArgs : ListStarredRepositories(b) = desc.request => b = desc.args

----------------------------------------------------------------------------
(* The retry budget, the waits and the last error *)

\* C25: one invocation of _make_request of stargazers-advanced.py makes at
\* most max_retries + 1 network calls and ends by returning or raising:
\* every step of the loop either ends the call or is one more network call
\* that adds one to the single counter retries, whatever the response was
\* (429, 4xx, 5xx, connection failure), and the counter never passes
\* max_retries + 1.
C25_AdvOneBudget ==
    /\ [](prog = "advanced" =>
            /\ adv.calls <= cfg.max_retries + 1
            /\ adv.pc = "loop" => (adv.retries = adv.calls
                                     /\ adv.retries <= cfg.max_retries + 1))
    /\ [][(prog = "advanced" /\ adv.pc = "loop") =>
             \/ adv'.pc \in {"returned", "raised"}
             \/ (adv'.pc = "loop" /\ adv'.retries = adv.retries + 1
                     /\ adv'.calls = adv.calls + 1)]_vars

\* a call that met a 429, a 5xx, a 4xx and a connection failure and ended
\* after max_retries + 1 network calls
C25_Witness ==
    /\ prog = "advanced" /\ adv.pc = "raised"
    /\ adv.calls = cfg.max_retries + 1
    /\ {429, 500, 403, 0} \subseteq {adv.log[i] : i \in 1..Len(adv.log)}

Min(a, b) == IF a <= b THEN a ELSE b

\* for a call that met only 5xx responses and connection failures: one
\* wait per failure but none after the last attempt of the budget, the
\* n-th wait being retry_delay * 2^(n-1)
BackoffWaits(c) ==
    (\A i \in 1..Len(c.log) : c.log[i] \in {0} \cup ServerErrorStatuses) =>
        /\ Len(c.sleeps) = Min(Len(c.log), cfg.max_retries)
        /\ \A n \in 1..Len(c.sleeps) : c.sleeps[n] = cfg.retry_delay * 2 ^ (n - 1)

\* C26: in both retrying clients, over consecutive 5xx responses or
\* connection failures, the wait before the n-th retry is
\* retry_delay * 2^(n-1), no wait follows the final failed attempt, and a
\* Retry-After or X-RateLimit-Reset header on a 5xx does not change it.
C26_ExponentialBackoff ==
    /\ prog = "advanced" => BackoffWaits(adv)
    /\ prog = "advanced2" => BackoffWaits(adv2)

\* the budget of advanced2 spent on 5xx responses, the last of them with a
\* reset header: max_retries waits for max_retries + 1 calls
C26_Witness ==
    /\ prog = "advanced2" /\ cfg.max_retries >= 2
    /\ Len(adv2.log) = cfg.max_retries + 1
    /\ \A i \in 1..Len(adv2.log) : adv2.log[i] = 500
    /\ "X-RateLimit-Reset" \in DOMAIN adv2.last.headers
    /\ Len(adv2.sleeps) = cfg.max_retries

\* C27: in _make_request of stargazers-advanced.py a 429 is retried while
\* budget remains; the wait before the retry is the Retry-After value when
\* the header is there, else the current backoff delay
\* retry_delay * 2^f, f the attempts that failed so far in the call; either
\* way the attempt counter goes up by one and the backoff delay doubles.
C27_AdvRateLimitRetry ==
    [][(prog = "advanced" /\ adv.pc = "loop" /\ adv'.calls = adv.calls + 1
           /\ ~adv'.last.conn /\ adv'.last.status = 429) =>
          /\ adv.delay = cfg.retry_delay * 2 ^ adv.retries
          /\ adv'.sleeps = Append(adv.sleeps,
                                  IF "Retry-After" \in DOMAIN adv'.last.headers
                                  THEN adv'.last.headers["Retry-After"]
                                  ELSE cfg.retry_delay * 2 ^ adv.retries)
          /\ adv'.retries = adv.retries + 1
          /\ adv'.delay = 2 * adv.delay
          /\ adv'.pc = "loop"
          /\ adv.retries < cfg.max_retries => AdvLoopGuard(adv'.retries, cfg.max_retries)]_vars

\* a failure, then a 429 with Retry-After, then a 429 without it
C27_Witness ==
    /\ prog = "advanced" /\ adv.pc = "loop" /\ Len(adv.log) = 3
    /\ adv.log = <<500, 429, 429>>
    /\ adv.sleeps = <<cfg.retry_delay, 7, cfg.retry_delay * 4>>

\* every response of the call drew on the retry budget and the budget ran out
Adv2BudgetSpent ==
    /\ prog = "advanced2" /\ adv2.pc = "raised" /\ adv2.retries = Len(adv2.log)
    /\ Len(adv2.log) >= 1

\* C28: in _request of stargazers-advanced2.py, when the budget is spent
\* on 5xx responses (or 429 responses without X-RateLimit-Reset) the
\* GitHubAPIError raised carries the status of the last response; when it
\* is spent on connection failures it carries status 0; max_retries + 1
\* network calls were made in both cases.
C28_Adv2LastError ==
    /\ (Adv2BudgetSpent
           /\ \A i \in 1..Len(adv2.log) : adv2.log[i] \in ServerErrorStatuses \cup {429}) =>
          /\ adv2.calls = cfg.max_retries + 1
          /\ adv2.err.type = "GitHubAPIError"
          /\ adv2.err.status = adv2.log[Len(adv2.log)]
    /\ (Adv2BudgetSpent /\ \A i \in 1..Len(adv2.log) : adv2.log[i] = 0) =>
          /\ adv2.calls = cfg.max_retries + 1
          /\ adv2.err.type = "GitHubAPIError"
          /\ adv2.err.status = 0

\* the budget spent on a 500 and then 429 responses without the header
C28_Witness ==
    /\ Adv2BudgetSpent /\ cfg.max_retries >= 2
    /\ adv2.log[1] = 500 /\ adv2.log[Len(adv2.log)] = 429
    /\ \A i \in 1..Len(adv2.log) : adv2.log[i] \in {500, 429}
    /\ adv2.err.status = 429

----------------------------------------------------------------------------
(* Properties of two calls in flight on one client *)

RECURSIVE ConcSolo(_, _, _)
\* the locals of a call that runs alone and receives the responses resps
ConcSolo(p, resps, c) ==
    IF resps = <<>> THEN ConcBegin(p, c)
    ELSE LET r == resps[Len(resps)]
         IN  ConcStep(p, ConcSolo(p, SubSeq(resps, 1, Len(resps) - 1), c),
                      r[1], r[2], c)

\* C29: however two calls on one client interleave, each call's attempt
\* counter, backoff delay, waits and result are those of the same call
\* running alone on the responses it received itself.
C29_CallsIndependent ==
    prog \in ConcPrograms =>
        \A i \in Callers :
            conc[i].locals.pc # "idle" =>
                LET solo == ConcSolo(prog, conc[i].resps, cfg)
                IN  \/ conc[i].locals = solo
                    \/ /\ solo.pc = "loop"
                       /\ ~ConcLoopGuard(prog, solo, cfg)
                       /\ conc[i].locals = ConcAfterLoop(prog, solo)

\* call 2 used up its budget while call 1, one failure in, still has budget
C29_Witness ==
    /\ prog \in ConcPrograms /\ cfg.max_retries = 1
    /\ conc[1].locals.pc = "loop" /\ conc[1].locals.retries = 1
    /\ conc[1].locals.log = <<500>>
    /\ conc[2].locals.pc = "raised" /\ conc[2].locals.retries = 2
    /\ conc[2].locals.log = <<500, 500>>

----------------------------------------------------------------------------
(* Frame of paginate *)

\* C30: paginate of output.py leaves the params mapping its caller supplied
\* unchanged: during and after the call the caller's mapping holds exactly
\* the keys and values it held when the call was made.
C30_ParamsUnchanged ==
    (prog = "paginate" /\ pag.pc # "idle" /\ pag.given) => callerParams = pag.start
====
